---- MODULE Spec2Model ----
(***************************************************************************)
(* fensterchef: merging of the default key/button bindings into a          *)
(* configuration (src/src/default_configuration.c) and the xcb event       *)
(* dispatcher with its popup-move pointer grab (src/src/event.c).          *)
(*                                                                         *)
(* C arrays are 0-based, TLA+ sequences are 1-based: slot i of a C array   *)
(* is element i + 1 of the sequence modelling it.  Pointers are indices    *)
(* into the sequence `heap`; NULL is 0.                                    *)
(***************************************************************************)
EXTENDS Integers, Sequences, FiniteSets, TLC

(* ------------------------------ bounds -------------------------------- *)

\* longest key table / button table the configuration starts with
MaxUserKeys == 2
MaxUserButtons == 1

(* ------------------------- protocol constants ------------------------- *)

NULL == 0

XCB_MOD_MASK_SHIFT == 1
XCB_MOD_MASK_CONTROL == 4
XCB_MOD_MASK_1 == 8
XCB_MOD_MASK_4 == 64

XK_space == 32
XK_plus == 43
XK_minus == 45
XK_equal == 61
XK_a == 97
XK_b == 98
XK_e == 101
XK_f == 102
XK_h == 104
XK_j == 106
XK_k == 107
XK_l == 108
XK_n == 110
XK_p == 112
XK_q == 113
XK_r == 114
XK_s == 115
XK_v == 118
XK_w == 119
XK_Return == 65293
XK_Left == 65361
XK_Up == 65362
XK_Right == 65363
XK_Down == 65364

\* a | b on uint16_t operands
RECURSIVE BitOr(_, _)
BitOr(a, b) ==
    IF a = 0 THEN b
    ELSE IF b = 0 THEN a
    ELSE (IF a % 2 = 1 \/ b % 2 = 1 THEN 1 ELSE 0)
         + 2 * BitOr(a \div 2, b \div 2)

(* --------------------------- action payloads -------------------------- *)

\* the parameter union of an Action that was zero initialised ({ .code = X })
NoParameter == [tag |-> "zero", quad |-> <<0, 0, 0, 0>>, string |-> NULL]
\* the parameter union holding .quad = { a, b, c, d }
Quad(a, b, c, d) == [tag |-> "quad", quad |-> <<a, b, c, d>>, string |-> NULL]
\* the parameter union holding .string = pointer
String(pointer) == [tag |-> "string", quad |-> <<0, 0, 0, 0>>, string |-> pointer]

CodeAction(code) == [code |-> code, parameter |-> NoParameter]
ResizeBy(a, b, c, d) == [code |-> "ACTION_RESIZE_BY", parameter |-> Quad(a, b, c, d)]

\* heap objects: an array of Action, or the bytes of a string
ActionArray(actions) == [kind |-> "actions", actions |-> actions, bytes |-> ""]
StringObject(bytes) == [kind |-> "string", actions |-> <<>>, bytes |-> bytes]

\* the string literal of the default ACTION_RUN binding lives in static storage
TerminalLiteral == 1
TerminalCommand == "[ -n \"$TERMINAL\" ] && exec \"$TERMINAL\" || exec xterm"
StaticStorage == <<StringObject(TerminalCommand)>>

\* the data type of the parameter of an action code
get_action_data_type(code) ==
    IF code = "ACTION_RUN" THEN "string"
    ELSE IF code = "ACTION_RESIZE_BY" THEN "quad"
    ELSE "void"

\* xmemdup(pointer, size): a fresh allocation holding a copy of the bytes
xmemdup(mem, object) == [heap |-> Append(mem, object), pointer |-> Len(mem) + 1]

\* duplicate_data_value(type, &value): deep copy of the value in place; only
\* a string owns storage that needs a copy
duplicate_data_value(mem, type, value) ==
    IF type = "string" /\ value.string # NULL
    THEN LET copy == xmemdup(mem, StringObject(mem[value.string].bytes))
         IN  [heap |-> copy.heap, value |-> [value EXCEPT !.string = copy.pointer]]
    ELSE [heap |-> mem, value |-> value]

(* --------------------------- default bindings ------------------------- *)

KeyDefault(modifiers, flags, key_symbol, action) ==
    [modifiers |-> modifiers, flags |-> flags, key_symbol |-> key_symbol,
     action |-> action]

ButtonDefault(modifiers, flags, button_index, action) ==
    [modifiers |-> modifiers, flags |-> flags, button_index |-> button_index,
     action |-> action]

\* default_bindings[] of merge_with_default_button_bindings
default_button_bindings == <<
    ButtonDefault(0, 0, 1, CodeAction("ACTION_INITIATE_RESIZE")),
    ButtonDefault(0, 0, 2, CodeAction("ACTION_MINIMIZE_WINDOW")),
    ButtonDefault(0, 0, 3, CodeAction("ACTION_INITIATE_MOVE")) >>

\* default_bindings[] of merge_with_default_key_bindings
default_key_bindings == <<
    KeyDefault(XCB_MOD_MASK_SHIFT, 0, XK_r, CodeAction("ACTION_RELOAD_CONFIGURATION")),
    KeyDefault(0, 0, XK_a, CodeAction("ACTION_PARENT_FRAME")),
    KeyDefault(0, 0, XK_b, CodeAction("ACTION_CHILD_FRAME")),
    KeyDefault(XCB_MOD_MASK_SHIFT, 0, XK_a, CodeAction("ACTION_ROOT_FRAME")),
    KeyDefault(0, 0, XK_q, CodeAction("ACTION_CLOSE_WINDOW")),
    KeyDefault(0, 0, XK_minus, CodeAction("ACTION_MINIMIZE_WINDOW")),
    KeyDefault(0, 0, XK_n, CodeAction("ACTION_NEXT_WINDOW")),
    KeyDefault(0, 0, XK_p, CodeAction("ACTION_PREVIOUS_WINDOW")),
    KeyDefault(0, 0, XK_r, CodeAction("ACTION_REMOVE_FRAME")),
    KeyDefault(XCB_MOD_MASK_SHIFT, 0, XK_space, CodeAction("ACTION_TOGGLE_TILING")),
    KeyDefault(0, 0, XK_f, CodeAction("ACTION_TOGGLE_FULLSCREEN")),
    KeyDefault(0, 0, XK_space, CodeAction("ACTION_TOGGLE_FOCUS")),
    KeyDefault(0, 0, XK_v, CodeAction("ACTION_SPLIT_HORIZONTALLY")),
    KeyDefault(0, 0, XK_s, CodeAction("ACTION_SPLIT_VERTICALLY")),
    KeyDefault(0, 0, XK_k, CodeAction("ACTION_FOCUS_UP")),
    KeyDefault(0, 0, XK_h, CodeAction("ACTION_FOCUS_LEFT")),
    KeyDefault(0, 0, XK_l, CodeAction("ACTION_FOCUS_RIGHT")),
    KeyDefault(0, 0, XK_j, CodeAction("ACTION_FOCUS_DOWN")),
    KeyDefault(XCB_MOD_MASK_SHIFT, 0, XK_k, CodeAction("ACTION_EXCHANGE_UP")),
    KeyDefault(XCB_MOD_MASK_SHIFT, 0, XK_h, CodeAction("ACTION_EXCHANGE_LEFT")),
    KeyDefault(XCB_MOD_MASK_SHIFT, 0, XK_l, CodeAction("ACTION_EXCHANGE_RIGHT")),
    KeyDefault(XCB_MOD_MASK_SHIFT, 0, XK_j, CodeAction("ACTION_EXCHANGE_DOWN")),
    KeyDefault(XCB_MOD_MASK_CONTROL, 0, XK_Left, ResizeBy(20, 0, 0, 0)),
    KeyDefault(XCB_MOD_MASK_CONTROL, 0, XK_Up, ResizeBy(0, 20, 0, 0)),
    KeyDefault(XCB_MOD_MASK_CONTROL, 0, XK_Right, ResizeBy(-20, 0, 0, 0)),
    KeyDefault(XCB_MOD_MASK_CONTROL, 0, XK_Down, ResizeBy(0, -20, 0, 0)),
    KeyDefault(XCB_MOD_MASK_SHIFT, 0, XK_Left, ResizeBy(0, 0, -20, 0)),
    KeyDefault(XCB_MOD_MASK_SHIFT, 0, XK_Up, ResizeBy(0, 0, 0, -20)),
    KeyDefault(XCB_MOD_MASK_SHIFT, 0, XK_Right, ResizeBy(0, 0, 20, 0)),
    KeyDefault(XCB_MOD_MASK_SHIFT, 0, XK_Down, ResizeBy(0, 0, 0, 20)),
    KeyDefault(0, 0, XK_Left, ResizeBy(20, 0, -20, 0)),
    KeyDefault(0, 0, XK_Up, ResizeBy(0, 20, 0, -20)),
    KeyDefault(0, 0, XK_Right, ResizeBy(-20, 0, 20, 0)),
    KeyDefault(0, 0, XK_Down, ResizeBy(0, -20, 0, 20)),
    KeyDefault(XCB_MOD_MASK_CONTROL, 0, XK_plus, ResizeBy(10, 10, 10, 10)),
    KeyDefault(XCB_MOD_MASK_CONTROL, 0, XK_minus, ResizeBy(-10, -10, -10, -10)),
    KeyDefault(XCB_MOD_MASK_CONTROL, 0, XK_equal, ResizeBy(10, 10, 10, 10)),
    KeyDefault(0, 0, XK_w, CodeAction("ACTION_SHOW_WINDOW_LIST")),
    KeyDefault(0, 0, XK_Return,
        [code |-> "ACTION_RUN", parameter |-> String(TerminalLiteral)]),
    KeyDefault(BitOr(XCB_MOD_MASK_CONTROL, XCB_MOD_MASK_SHIFT), 0, XK_e,
        CodeAction("ACTION_QUIT")) >>

(* ------------------------------- state -------------------------------- *)

VARIABLES
    configuration,      \* struct configuration: keyboard and mouse bindings
    heap,               \* allocated Action arrays and strings, by pointer
    key_call,           \* history of merge_with_default_key_bindings calls
    button_call,        \* history of merge_with_default_button_bindings calls
    randr_event_base,   \* first event code of the randr extension
    selected_window,    \* the popup window being moved (event.c)
    pointer_grab,       \* whether the server holds our pointer grab
    windows,            \* window registry: xcb window -> its state
    geometries,         \* server side position of every window
    handled,            \* what the last handle_event() call did
    grab_origin         \* history: window and pointer position at the last
                        \* button press that grabbed the pointer

config_vars == <<configuration, heap, key_call, button_call>>
event_vars == <<randr_event_base, selected_window, pointer_grab, windows,
                geometries, handled, grab_origin>>
vars == <<configuration, heap, key_call, button_call, randr_event_base,
          selected_window, pointer_grab, windows, geometries, handled,
          grab_origin>>

(* --------------------------- binding lookup --------------------------- *)

Min(S) == CHOOSE x \in S : \A y \in S : x <= y

\* find_configured_key(): first key among keys[0 .. number_of_keys - 1] with
\* exactly these modifiers, key symbol and flags, NULL when there is none
find_configured_key(cfg, modifiers, key_symbol, flags) ==
    LET found == {i \in 1..cfg.keyboard.number_of_keys :
                    /\ cfg.keyboard.keys[i].modifiers = modifiers
                    /\ cfg.keyboard.keys[i].key_symbol = key_symbol
                    /\ cfg.keyboard.keys[i].flags = flags}
    IN  IF found = {} THEN NULL ELSE Min(found)

\* find_configured_button(): the same over buttons[0 .. number_of_buttons - 1]
find_configured_button(cfg, modifiers, button_index, flags) ==
    LET found == {i \in 1..cfg.mouse.number_of_buttons :
                    /\ cfg.mouse.buttons[i].modifiers = modifiers
                    /\ cfg.mouse.buttons[i].index = button_index
                    /\ cfg.mouse.buttons[i].flags = flags}
    IN  IF found = {} THEN NULL ELSE Min(found)

\* a slot of a binding array that RESIZE() added and nothing has written yet
UninitialisedKey ==
    [flags |-> -1, modifiers |-> -1, key_symbol |-> -1, actions |-> -1,
     number_of_actions |-> -1]
UninitialisedButton ==
    [flags |-> -1, modifiers |-> -1, index |-> -1, actions |-> -1,
     number_of_actions |-> -1]

\* RESIZE(array, count): realloc keeping the elements that fit
RESIZE(array, count, fresh) ==
    [i \in 1..count |-> IF i <= Len(array) THEN array[i] ELSE fresh]

(* ------------------ merge_with_default_key_bindings ------------------- *)

\* first loop with the `continue` missing: every default is counted
RECURSIVE key_count_pass_counts_all(_, _, _)
key_count_pass_counts_all(cfg, i, new_count) ==
    IF i > Len(default_key_bindings) THEN new_count
    ELSE key_count_pass_counts_all(cfg, i + 1, new_count + 1)

\* first loop: number_of_keys plus the number of defaults not defined yet
RECURSIVE key_count_pass(_, _, _)
key_count_pass(cfg, i, new_count) ==
    IF i > Len(default_key_bindings) THEN new_count
    ELSE LET d == default_key_bindings[i]
             modifiers == BitOr(d.modifiers, cfg.keyboard.modifiers)
             key == find_configured_key(cfg, modifiers, d.key_symbol, d.flags)
         IN  IF key # NULL
             THEN key_count_pass(cfg, i + 1, new_count)
             ELSE key_count_pass(cfg, i + 1, new_count + 1)

\* the new key without duplicate_data_value(): the parameter is shared
new_key_shallow(mem, d, modifiers) ==
    LET array == xmemdup(mem, ActionArray(<<d.action>>))
    IN  [heap |-> array.heap,
         key |-> [flags |-> d.flags, modifiers |-> modifiers,
                  key_symbol |-> d.key_symbol, actions |-> array.pointer,
                  number_of_actions |-> 1]]

\* the new key taking the modifiers of its default alone, not combined with
\* the modifiers of the table
new_key_own_modifiers(mem, d, modifiers) ==
    LET array == xmemdup(mem, ActionArray(<<d.action>>))
        copy == duplicate_data_value(array.heap,
                    get_action_data_type(d.action.code), d.action.parameter)
    IN  [heap |-> [copy.heap EXCEPT
                    ![array.pointer].actions[1].parameter = copy.value],
         key |-> [flags |-> d.flags, modifiers |-> d.modifiers,
                  key_symbol |-> d.key_symbol, actions |-> array.pointer,
                  number_of_actions |-> 1]]

\* body of the second loop: the key written to *next_key for default d
new_key(mem, d, modifiers) ==
    LET array == xmemdup(mem, ActionArray(<<d.action>>))
        copy == duplicate_data_value(array.heap,
                    get_action_data_type(d.action.code), d.action.parameter)
    IN  [heap |-> [copy.heap EXCEPT
                    ![array.pointer].actions[1].parameter = copy.value],
         key |-> [flags |-> d.flags, modifiers |-> modifiers,
                  key_symbol |-> d.key_symbol, actions |-> array.pointer,
                  number_of_actions |-> 1]]

\* second loop with the next_key++ missing
RECURSIVE key_fill_pass_no_advance(_, _, _, _)
key_fill_pass_no_advance(cfg, mem, i, next_key) ==
    IF i > Len(default_key_bindings)
    THEN [configuration |-> cfg, heap |-> mem, cursor |-> next_key]
    ELSE LET d == default_key_bindings[i]
             modifiers == BitOr(d.modifiers, cfg.keyboard.modifiers)
             key == find_configured_key(cfg, modifiers, d.key_symbol, d.flags)
             new == new_key(mem, d, modifiers)
         IN  IF key # NULL
             THEN key_fill_pass_no_advance(cfg, mem, i + 1, next_key)
             ELSE key_fill_pass_no_advance(
                     [cfg EXCEPT !.keyboard.keys[next_key] = new.key],
                     new.heap, i + 1, next_key)

\* second loop testing presence against the keys up to the cursor, as if
\* number_of_keys grew with every key written
RECURSIVE key_fill_pass_sees_new_keys(_, _, _, _)
key_fill_pass_sees_new_keys(cfg, mem, i, next_key) ==
    IF i > Len(default_key_bindings)
    THEN [configuration |-> cfg, heap |-> mem, cursor |-> next_key]
    ELSE LET d == default_key_bindings[i]
             modifiers == BitOr(d.modifiers, cfg.keyboard.modifiers)
             key == find_configured_key(
                        [cfg EXCEPT !.keyboard.number_of_keys = next_key - 1],
                        modifiers, d.key_symbol, d.flags)
             new == new_key(mem, d, modifiers)
         IN  IF key # NULL
             THEN key_fill_pass_sees_new_keys(cfg, mem, i + 1, next_key)
             ELSE key_fill_pass_sees_new_keys(
                     [cfg EXCEPT !.keyboard.keys[next_key] = new.key],
                     new.heap, i + 1, next_key + 1)

\* second loop: write the defaults not defined yet at the cursor next_key
RECURSIVE key_fill_pass(_, _, _, _)
key_fill_pass(cfg, mem, i, next_key) ==
    IF i > Len(default_key_bindings)
    THEN [configuration |-> cfg, heap |-> mem, cursor |-> next_key]
    ELSE LET d == default_key_bindings[i]
             modifiers == BitOr(d.modifiers, cfg.keyboard.modifiers)
             key == find_configured_key(cfg, modifiers, d.key_symbol, d.flags)
             new == new_key(mem, d, modifiers)
         IN  IF key # NULL
             THEN key_fill_pass(cfg, mem, i + 1, next_key)
             ELSE key_fill_pass(
                     [cfg EXCEPT !.keyboard.keys[next_key] = new.key],
                     new.heap, i + 1, next_key + 1)

\* the cursor starting at the first key: the defined keys are overwritten
first_new_key_at_start(cfg) == 1

\* next_key = &keys[number_of_keys]
first_new_key(cfg) == cfg.keyboard.number_of_keys + 1

\* merge_with_default_key_bindings() after the first loop: the shortcut
\* when no key needs to be added, else RESIZE(), the second loop and the
\* update of number_of_keys
add_new_keys(cfg, mem, new_count) ==
    IF new_count = cfg.keyboard.number_of_keys
    THEN [configuration |-> cfg, heap |-> mem, cursor |-> first_new_key(cfg)]
    ELSE [key_fill_pass(
            [cfg EXCEPT !.keyboard.keys =
                RESIZE(@, new_count, UninitialisedKey)],
            mem, 1, first_new_key(cfg))
          EXCEPT !.configuration.keyboard.number_of_keys = new_count]

\* the configuration and heap merge_with_default_key_bindings() leaves, and
\* where its cursor next_key ends
merged_key_bindings(cfg, mem) ==
    add_new_keys(cfg, mem, key_count_pass(cfg, 1, cfg.keyboard.number_of_keys))

(* ----------------- merge_with_default_button_bindings ----------------- *)

\* first loop: number_of_buttons plus the number of defaults not defined yet
RECURSIVE button_count_pass(_, _, _)
button_count_pass(cfg, i, new_count) ==
    IF i > Len(default_button_bindings) THEN new_count
    ELSE LET d == default_button_bindings[i]
             modifiers == BitOr(d.modifiers, cfg.mouse.modifiers)
             button == find_configured_button(cfg, modifiers, d.button_index,
                            d.flags)
         IN  IF button # NULL
             THEN button_count_pass(cfg, i + 1, new_count)
             ELSE button_count_pass(cfg, i + 1, new_count + 1)

\* body of the second loop: the button written to *next_button for default d
new_button(mem, d, modifiers) ==
    LET array == xmemdup(mem, ActionArray(<<d.action>>))
        copy == duplicate_data_value(array.heap,
                    get_action_data_type(d.action.code), d.action.parameter)
    IN  [heap |-> [copy.heap EXCEPT
                    ![array.pointer].actions[1].parameter = copy.value],
         button |-> [flags |-> d.flags, modifiers |-> modifiers,
                     index |-> d.button_index, actions |-> array.pointer,
                     number_of_actions |-> 1]]

\* second loop: write the defaults not defined yet at the cursor next_button
RECURSIVE button_fill_pass(_, _, _, _)
button_fill_pass(cfg, mem, i, next_button) ==
    IF i > Len(default_button_bindings)
    THEN [configuration |-> cfg, heap |-> mem, cursor |-> next_button]
    ELSE LET d == default_button_bindings[i]
             modifiers == BitOr(d.modifiers, cfg.mouse.modifiers)
             button == find_configured_button(cfg, modifiers, d.button_index,
                            d.flags)
             new == new_button(mem, d, modifiers)
         IN  IF button # NULL
             THEN button_fill_pass(cfg, mem, i + 1, next_button)
             ELSE button_fill_pass(
                     [cfg EXCEPT !.mouse.buttons[next_button] = new.button],
                     new.heap, i + 1, next_button + 1)

\* next_button = &buttons[number_of_buttons]
first_new_button(cfg) == cfg.mouse.number_of_buttons + 1

\* merge_with_default_button_bindings() after the first loop
add_new_buttons(cfg, mem, new_count) ==
    IF new_count = cfg.mouse.number_of_buttons
    THEN [configuration |-> cfg, heap |-> mem,
          cursor |-> first_new_button(cfg)]
    ELSE [button_fill_pass(
            [cfg EXCEPT !.mouse.buttons =
                RESIZE(@, new_count, UninitialisedButton)],
            mem, 1, first_new_button(cfg))
          EXCEPT !.configuration.mouse.number_of_buttons = new_count]

\* the configuration and heap merge_with_default_button_bindings() leaves,
\* and where its cursor next_button ends
merged_button_bindings(cfg, mem) ==
    add_new_buttons(cfg, mem,
        button_count_pass(cfg, 1, cfg.mouse.number_of_buttons))

(* ----------------------- configurations to merge ---------------------- *)

\* values of <<keyboard.modifiers, mouse.modifiers>> a configuration may set
TableModifiers ==
    {<<XCB_MOD_MASK_4, XCB_MOD_MASK_4>>,
     <<BitOr(XCB_MOD_MASK_4, XCB_MOD_MASK_SHIFT), XCB_MOD_MASK_4>>,
     <<BitOr(XCB_MOD_MASK_1, XCB_MOD_MASK_CONTROL), XCB_MOD_MASK_1>>}

\* an action as the configuration source states it: a string parameter is
\* given by its text and allocated when the binding is installed
Run(text) == [code |-> "ACTION_RUN", text |-> text, parameter |-> NoParameter]
Plain(action) == [code |-> action.code, text |-> "", parameter |-> action.parameter]

\* key bindings a configuration source may define
UserKeys == {
    [modifiers |-> XCB_MOD_MASK_4, flags |-> 0, key_symbol |-> XK_q,
     actions |-> <<Run("firefox")>>],
    [modifiers |-> BitOr(XCB_MOD_MASK_4, XCB_MOD_MASK_SHIFT), flags |-> 0,
     key_symbol |-> XK_r,
     actions |-> <<Plain(CodeAction("ACTION_QUIT")), Run("xterm")>>],
    [modifiers |-> BitOr(XCB_MOD_MASK_1, XCB_MOD_MASK_CONTROL), flags |-> 1,
     key_symbol |-> XK_minus,
     actions |-> <<Plain(ResizeBy(1, 2, 3, 4))>>] }

\* button bindings a configuration source may define
UserButtons == {
    [modifiers |-> XCB_MOD_MASK_4, flags |-> 0, index |-> 1,
     actions |-> <<Plain(CodeAction("ACTION_CLOSE_WINDOW"))>>],
    [modifiers |-> XCB_MOD_MASK_1, flags |-> 1, index |-> 3,
     actions |-> <<Run("dmenu_run"), Plain(CodeAction("ACTION_INITIATE_MOVE"))>>] }

\* sequences over S of length at most n
SeqUpTo(S, n) == UNION {[1..k -> S] : k \in 0..n}

\* allocates the actions of one binding: every string, then the array
RECURSIVE install_actions(_, _, _, _)
install_actions(mem, actions, i, done) ==
    IF i > Len(actions)
    THEN xmemdup(mem, ActionArray(done))
    ELSE IF actions[i].code = "ACTION_RUN"
    THEN LET text == xmemdup(mem, StringObject(actions[i].text))
         IN  install_actions(text.heap, actions, i + 1,
                Append(done, [code |-> actions[i].code,
                              parameter |-> String(text.pointer)]))
    ELSE install_actions(mem, actions, i + 1,
            Append(done, [code |-> actions[i].code,
                          parameter |-> actions[i].parameter]))

\* the configuration holding the given key and button bindings, and its heap
RECURSIVE install_bindings(_, _, _, _)
install_bindings(cfg, mem, user_keys, user_buttons) ==
    IF user_keys # <<>>
    THEN LET u == Head(user_keys)
             array == install_actions(mem, u.actions, 1, <<>>)
             key == [flags |-> u.flags, modifiers |-> u.modifiers,
                     key_symbol |-> u.key_symbol, actions |-> array.pointer,
                     number_of_actions |-> Len(u.actions)]
         IN  install_bindings(
                [cfg EXCEPT !.keyboard.keys = Append(@, key),
                            !.keyboard.number_of_keys = @ + 1],
                array.heap, Tail(user_keys), user_buttons)
    ELSE IF user_buttons # <<>>
    THEN LET u == Head(user_buttons)
             array == install_actions(mem, u.actions, 1, <<>>)
             button == [flags |-> u.flags, modifiers |-> u.modifiers,
                        index |-> u.index, actions |-> array.pointer,
                        number_of_actions |-> Len(u.actions)]
         IN  install_bindings(
                [cfg EXCEPT !.mouse.buttons = Append(@, button),
                            !.mouse.number_of_buttons = @ + 1],
                array.heap, user_keys, Tail(user_buttons))
    ELSE [configuration |-> cfg, heap |-> mem]

\* a configuration without bindings
empty_configuration(keyboard_modifiers, mouse_modifiers) ==
    [keyboard |-> [modifiers |-> keyboard_modifiers, keys |-> <<>>,
                   number_of_keys |-> 0],
     mouse |-> [modifiers |-> mouse_modifiers, buttons |-> <<>>,
                number_of_buttons |-> 0]]

\* static const struct configuration default_configuration
default_configuration == empty_configuration(XCB_MOD_MASK_4, XCB_MOD_MASK_4)

\* the configuration load_default_configuration() hands to set_configuration()
load_default_configuration ==
    LET with_buttons == merged_button_bindings(default_configuration,
                            StaticStorage)
    IN  merged_key_bindings(with_buttons.configuration, with_buttons.heap)

(* --------------------------- event dispatcher ------------------------- *)

\* largest coordinate of the pointer on the screen
MaxCoordinate == 1

\* core event codes of the X protocol handle_event() switches on
XCB_KEY_PRESS == 2
XCB_BUTTON_PRESS == 4
XCB_BUTTON_RELEASE == 5
XCB_MOTION_NOTIFY == 6
XCB_DESTROY_NOTIFY == 17
XCB_UNMAP_NOTIFY == 18
XCB_MAP_REQUEST == 20
XCB_CONFIGURE_REQUEST == 23
XCB_PROPERTY_NOTIFY == 28
\* core event codes without a case in the switch
XCB_KEY_RELEASE == 3
XCB_MAP_NOTIFY == 19

\* the windows the server knows besides the root; XCB_NONE is no window
XCB_NONE == 0
XcbWindows == {1, 2}
Coordinates == 0..MaxCoordinate

\* window states; "none" stands for a window without a Window struct
WindowStates == {"POPUP", "SHOWN", "HIDDEN"}

\* property atoms: the three handle_property_notify() tests for and another
Atoms == {"WM_NAME", "WM_SIZE_HINTS", "WM_HINTS", "WM_CLASS"}

\* values randr_event_base is given at startup: the usual first event of
\* randr, and values at or below core event codes
ExtensionBases == {89, 5, 2}

\* static storage of event.c before the first event: selected_window is
\* zero initialised
no_selected_window ==
    [start |-> [x |-> 0, y |-> 0], old_mouse |-> [x |-> 0, y |-> 0],
     xcb_window |-> XCB_NONE]

\* type = (event->response_type & ~0x80), both uint8_t
event_type(response_type) ==
    IF (response_type % 256) >= 128
    THEN (response_type % 256) - 128
    ELSE response_type % 256

\* get_window_of_xcb_window(): the Window of an xcb window, NULL without one
get_window_of_xcb_window(registry, xcb_window) ==
    IF xcb_window \in DOMAIN registry /\ registry[xcb_window] # "none"
    THEN xcb_window
    ELSE NULL

\* xcb_get_geometry_reply(): the position the server holds, NULL on failure
\* (the window does not exist or the request fails)
xcb_get_geometry_reply(st, xcb_window, answered) ==
    IF answered /\ xcb_window \in DOMAIN st.geometries
    THEN st.geometries[xcb_window]
    ELSE [x |-> NULL, y |-> NULL, failed |-> TRUE]

geometry_failed(geometry) == "failed" \in DOMAIN geometry

\* a request sent to the X server, a call of another component
request(st, what) == [st EXCEPT !.requests = Append(@, what)]
call(st, what) == [st EXCEPT !.calls = Append(@, what)]

\* handle_map_request() without the return for a window that has a Window
handle_map_request_creates_again(st, event, replies) ==
    call(call([st EXCEPT !.windows =
                    [w \in DOMAIN @ |->
                        IF w = event.window THEN replies.predicted ELSE @[w]]],
              <<"create_window", event.window>>),
         <<"set_focus_window", event.window>>)

\* static void handle_map_request(xcb_map_request_event_t *event)
handle_map_request(st, event, replies) ==
    IF get_window_of_xcb_window(st.windows, event.window) # NULL
    THEN st
    ELSE call(call([st EXCEPT !.windows =
                        [w \in DOMAIN @ |->
                            IF w = event.window THEN replies.predicted ELSE @[w]]],
                   <<"create_window", event.window>>),
              <<"set_focus_window", event.window>>)

\* handle_button_press() with start.x taken from root_x
handle_button_press_start_xy(st, event, replies) ==
    LET window == get_window_of_xcb_window(st.windows, event.child)
        geometry == xcb_get_geometry_reply(st, event.child, replies.geometry)
    IN  IF window = NULL \/ st.windows[window] # "POPUP"
        THEN st
        ELSE IF geometry_failed(geometry)
        THEN request(st, <<"xcb_get_geometry", event.child>>)
        ELSE request(request(
                [st EXCEPT !.selected_window =
                    [start |-> [x |-> event.root_x, y |-> event.root_y],
                     old_mouse |-> [x |-> event.root_x, y |-> event.root_y],
                     xcb_window |-> event.child],
                 !.pointer_grab = TRUE],
                <<"xcb_get_geometry", event.child>>),
                <<"xcb_grab_pointer",
                  {"XCB_EVENT_MASK_BUTTON_RELEASE",
                   "XCB_EVENT_MASK_BUTTON_MOTION"}>>)

\* handle_button_press() without the return on a NULL geometry reply
handle_button_press_without_geometry(st, event, replies) ==
    LET window == get_window_of_xcb_window(st.windows, event.child)
    IN  IF window = NULL \/ st.windows[window] # "POPUP"
        THEN st
        ELSE request(request(
                [st EXCEPT !.selected_window =
                    [start |-> [x |-> event.root_y, y |-> event.root_y],
                     old_mouse |-> [x |-> event.root_x, y |-> event.root_y],
                     xcb_window |-> event.child],
                 !.pointer_grab = TRUE],
                <<"xcb_get_geometry", event.child>>),
                <<"xcb_grab_pointer",
                  {"XCB_EVENT_MASK_BUTTON_RELEASE",
                   "XCB_EVENT_MASK_BUTTON_MOTION"}>>)

\* static void handle_button_press(xcb_button_press_event_t *event)
handle_button_press(st, event, replies) ==
    LET window == get_window_of_xcb_window(st.windows, event.child)
        geometry == xcb_get_geometry_reply(st, event.child, replies.geometry)
    IN  IF window = NULL \/ st.windows[window] # "POPUP"
        THEN st
        ELSE IF geometry_failed(geometry)
        THEN request(st, <<"xcb_get_geometry", event.child>>)
        ELSE request(request(
                [st EXCEPT !.selected_window =
                    [start |-> [x |-> event.root_y, y |-> event.root_y],
                     old_mouse |-> [x |-> event.root_x, y |-> event.root_y],
                     xcb_window |-> event.child],
                 !.pointer_grab = TRUE],
                <<"xcb_get_geometry", event.child>>),
                <<"xcb_grab_pointer",
                  {"XCB_EVENT_MASK_BUTTON_RELEASE",
                   "XCB_EVENT_MASK_BUTTON_MOTION"}>>)

\* handle_motion_notify() without the two assignments to old_mouse
handle_motion_notify_keeps_old_mouse(st, event, replies) ==
    LET xcb_window == st.selected_window.xcb_window
        geometry == xcb_get_geometry_reply(st, xcb_window, replies.geometry)
        g_values == <<geometry.x + (event.root_x - st.selected_window.old_mouse.x),
                      geometry.y + (event.root_y - st.selected_window.old_mouse.y)>>
    IN  IF geometry_failed(geometry)
        THEN request(request([st EXCEPT !.pointer_grab = FALSE],
                        <<"xcb_get_geometry", xcb_window>>),
                     <<"xcb_ungrab_pointer">>)
        ELSE request(request(
                [st EXCEPT !.geometries[xcb_window] =
                                [x |-> g_values[1], y |-> g_values[2]]],
                <<"xcb_get_geometry", xcb_window>>),
                <<"xcb_configure_window", xcb_window,
                  <<"XCB_CONFIG_WINDOW_X", "XCB_CONFIG_WINDOW_Y">>, g_values>>)

\* handle_motion_notify() moving by the way of the pointer since start
\* instead of old_mouse
handle_motion_notify_since_start(st, event, replies) ==
    LET xcb_window == st.selected_window.xcb_window
        geometry == xcb_get_geometry_reply(st, xcb_window, replies.geometry)
        g_values == <<geometry.x + (event.root_x - st.selected_window.start.x),
                      geometry.y + (event.root_y - st.selected_window.start.y)>>
    IN  IF geometry_failed(geometry)
        THEN request(request([st EXCEPT !.pointer_grab = FALSE],
                        <<"xcb_get_geometry", xcb_window>>),
                     <<"xcb_ungrab_pointer">>)
        ELSE request(request(
                [st EXCEPT !.selected_window.old_mouse =
                                [x |-> event.root_x, y |-> event.root_y],
                           !.geometries[xcb_window] =
                                [x |-> g_values[1], y |-> g_values[2]]],
                <<"xcb_get_geometry", xcb_window>>),
                <<"xcb_configure_window", xcb_window,
                  <<"XCB_CONFIG_WINDOW_X", "XCB_CONFIG_WINDOW_Y">>, g_values>>)

\* static void handle_motion_notify(xcb_motion_notify_event_t *event)
handle_motion_notify(st, event, replies) ==
    LET xcb_window == st.selected_window.xcb_window
        geometry == xcb_get_geometry_reply(st, xcb_window, replies.geometry)
        g_values == <<geometry.x + (event.root_x - st.selected_window.old_mouse.x),
                      geometry.y + (event.root_y - st.selected_window.old_mouse.y)>>
    IN  IF geometry_failed(geometry)
        THEN request(request([st EXCEPT !.pointer_grab = FALSE],
                        <<"xcb_get_geometry", xcb_window>>),
                     <<"xcb_ungrab_pointer">>)
        ELSE request(request(
                [st EXCEPT !.selected_window.old_mouse =
                                [x |-> event.root_x, y |-> event.root_y],
                           !.geometries[xcb_window] =
                                [x |-> g_values[1], y |-> g_values[2]]],
                <<"xcb_get_geometry", xcb_window>>),
                <<"xcb_configure_window", xcb_window,
                  <<"XCB_CONFIG_WINDOW_X", "XCB_CONFIG_WINDOW_Y">>, g_values>>)

\* static void handle_button_release(xcb_button_release_event_t *event)
handle_button_release(st, event, replies) ==
    request([st EXCEPT !.pointer_grab = FALSE], <<"xcb_ungrab_pointer">>)

\* set_window_state(window, state, force): a forced state is taken over, an
\* unforced one only when the window rules allow the change
set_window_state(st, window, state, force, allowed) ==
    call([st EXCEPT !.windows[window] =
                IF force = 1 \/ allowed THEN state ELSE @],
         <<"set_window_state", window, state, force>>)

\* handle_property_notify() setting the predicted state with force = 1
handle_property_notify_forced(st, event, replies) ==
    LET window == get_window_of_xcb_window(st.windows, event.window)
        updated ==
            IF event.atom = "WM_NAME"
            THEN call(st, <<"update_window_name", window>>)
            ELSE IF event.atom = "WM_SIZE_HINTS"
            THEN call(st, <<"update_window_size_hints", window>>)
            ELSE IF event.atom = "WM_HINTS"
            THEN call(st, <<"update_window_wm_hints", window>>)
            ELSE st
    IN  IF window = NULL
        THEN st
        ELSE set_window_state(call(updated, <<"predict_window_state", window>>),
                window, replies.predicted, 1, replies.allowed)

\* static void handle_property_notify(xcb_property_notify_event_t *event)
handle_property_notify(st, event, replies) ==
    LET window == get_window_of_xcb_window(st.windows, event.window)
        updated ==
            IF event.atom = "WM_NAME"
            THEN call(st, <<"update_window_name", window>>)
            ELSE IF event.atom = "WM_SIZE_HINTS"
            THEN call(st, <<"update_window_size_hints", window>>)
            ELSE IF event.atom = "WM_HINTS"
            THEN call(st, <<"update_window_wm_hints", window>>)
            ELSE st
    IN  IF window = NULL
        THEN st
        ELSE set_window_state(call(updated, <<"predict_window_state", window>>),
                window, replies.predicted, 0, replies.allowed)

\* void handle_unmap_notify(xcb_unmap_notify_event_t *event)
handle_unmap_notify(st, event, replies) ==
    LET window == get_window_of_xcb_window(st.windows, event.window)
    IN  IF window # NULL
        THEN set_window_state(st, window, "HIDDEN", 1, FALSE)
        ELSE st

\* static void handle_destroy_notify(xcb_destroy_notify_event_t *event)
handle_destroy_notify(st, event, replies) ==
    LET window == get_window_of_xcb_window(st.windows, event.window)
    IN  IF window # NULL
        THEN call([st EXCEPT !.windows[window] = "none"],
                  <<"destroy_window", window>>)
        ELSE st

\* get_action_bind(): the action bound to the pressed key, ACTION_NULL
\* without a binding
get_action_bind(cfg, mem, event) ==
    LET key == find_configured_key(cfg, event.state, event.key_symbol, 0)
    IN  IF key = NULL THEN "ACTION_NULL"
        ELSE mem[cfg.keyboard.keys[key].actions].actions[1].code

\* the configuration a reload produces from a configuration source that
\* binds Mod4+q to a command: the bindings of the source, then the defaults
\* merged as load_default_configuration() merges them
reloaded_user_configuration ==
    LET made == install_bindings(default_configuration, StaticStorage,
                    <<CHOOSE k \in UserKeys : k.key_symbol = XK_q>>, <<>>)
        with_buttons == merged_button_bindings(made.configuration, made.heap)
    IN  merged_key_bindings(with_buttons.configuration, with_buttons.heap)

\* the configuration a reload produces: from a source without bindings the
\* default configuration, else the one with the binding of the user
reload_configuration(source) ==
    IF source = "user" THEN reloaded_user_configuration
    ELSE load_default_configuration

\* do_action(action): the action engine; of what it does, the effect on the
\* configuration is modelled: ACTION_RELOAD_CONFIGURATION destroys the
\* binding tables and puts those of the reloaded configuration in their place
do_action(st, action, replies) ==
    LET done == call(st, <<"do_action", action>>)
        reloaded == reload_configuration(replies.source)
    IN  IF action = "ACTION_RELOAD_CONFIGURATION"
        THEN [done EXCEPT !.configuration = reloaded.configuration,
                          !.heap = reloaded.heap]
        ELSE done

\* handle_key_press() without the test for ACTION_NULL
handle_key_press_any_action(st, event, replies) ==
    do_action(st, get_action_bind(st.configuration, st.heap, event), replies)

\* void handle_key_press(xcb_key_press_event_t *event)
handle_key_press(st, event, replies) ==
    LET action == get_action_bind(st.configuration, st.heap, event)
    IN  IF action # "ACTION_NULL"
        THEN do_action(st, action, replies)
        ELSE st

\* bits of the value mask of xcb_configure_window(); XCB_CONFIG_SIZE is
\* defined outside of src/ and stands for position and size: x, y, width and
\* height
XCB_CONFIG_WINDOW_BORDER_WIDTH == 16
XCB_CONFIG_SIZE == 15

\* handle_configure_request() with a value mask of width, height and border
\* width only
handle_configure_request_size_only(st, event, replies) ==
    LET window == get_window_of_xcb_window(st.windows, event.window)
        g_values == <<event.x, event.y, event.width, event.height,
                      event.border_width>>
    IN  IF window # NULL
        THEN st
        ELSE request(st, <<"xcb_configure_window", event.window,
                BitOr(12, XCB_CONFIG_WINDOW_BORDER_WIDTH), g_values>>)

\* void handle_configure_request(xcb_configure_request_event_t *event); the
\* request is recorded, the geometry the server derives from it is not
handle_configure_request(st, event, replies) ==
    LET window == get_window_of_xcb_window(st.windows, event.window)
        g_values == <<event.x, event.y, event.width, event.height,
                      event.border_width>>
    IN  IF window # NULL
        THEN st
        ELSE request(st, <<"xcb_configure_window", event.window,
                BitOr(XCB_CONFIG_SIZE, XCB_CONFIG_WINDOW_BORDER_WIDTH),
                g_values>>)

\* void handle_screen_change(xcb_randr_screen_change_notify_event_t *event)
handle_screen_change(st, event, replies) ==
    call(call(st, <<"query_monitors">>), <<"merge_monitors">>)

\* the switch of handle_event() with the break after the button press case
\* missing: control falls through to the motion notify case
switch_handlers_fall_through(type) ==
    IF type = XCB_MAP_REQUEST THEN <<"handle_map_request">>
    ELSE IF type = XCB_BUTTON_PRESS
    THEN <<"handle_button_press", "handle_motion_notify">>
    ELSE IF type = XCB_MOTION_NOTIFY THEN <<"handle_motion_notify">>
    ELSE IF type = XCB_BUTTON_RELEASE THEN <<"handle_button_release">>
    ELSE IF type = XCB_PROPERTY_NOTIFY THEN <<"handle_property_notify">>
    ELSE IF type = XCB_UNMAP_NOTIFY THEN <<"handle_unmap_notify">>
    ELSE IF type = XCB_DESTROY_NOTIFY THEN <<"handle_destroy_notify">>
    ELSE IF type = XCB_CONFIGURE_REQUEST THEN <<"handle_configure_request">>
    ELSE IF type = XCB_KEY_PRESS THEN <<"handle_key_press">>
    ELSE <<>>

\* the switch of handle_event(): the handlers called for a core event type
switch_handlers(type) ==
    IF type = XCB_MAP_REQUEST THEN <<"handle_map_request">>
    ELSE IF type = XCB_BUTTON_PRESS THEN <<"handle_button_press">>
    ELSE IF type = XCB_MOTION_NOTIFY THEN <<"handle_motion_notify">>
    ELSE IF type = XCB_BUTTON_RELEASE THEN <<"handle_button_release">>
    ELSE IF type = XCB_PROPERTY_NOTIFY THEN <<"handle_property_notify">>
    ELSE IF type = XCB_UNMAP_NOTIFY THEN <<"handle_unmap_notify">>
    ELSE IF type = XCB_DESTROY_NOTIFY THEN <<"handle_destroy_notify">>
    ELSE IF type = XCB_CONFIGURE_REQUEST THEN <<"handle_configure_request">>
    ELSE IF type = XCB_KEY_PRESS THEN <<"handle_key_press">>
    ELSE <<>>

\* handle_event() testing the randr range only for types the switch has no
\* case for
called_handlers_switch_first(type, base) ==
    IF switch_handlers(type) # <<>> THEN switch_handlers(type)
    ELSE IF type >= base THEN <<"handle_screen_change">>
    ELSE <<>>

\* the handlers handle_event() calls, in order, for an event type
called_handlers(type, base) ==
    IF type >= base
    THEN <<"handle_screen_change">>
    ELSE switch_handlers(type)

\* the body of one handler
handler_body(name, st, event, replies) ==
    CASE name = "handle_screen_change" -> handle_screen_change(st, event, replies)
      [] name = "handle_map_request" -> handle_map_request(st, event, replies)
      [] name = "handle_button_press" -> handle_button_press(st, event, replies)
      [] name = "handle_motion_notify" -> handle_motion_notify(st, event, replies)
      [] name = "handle_button_release" -> handle_button_release(st, event, replies)
      [] name = "handle_property_notify" -> handle_property_notify(st, event, replies)
      [] name = "handle_unmap_notify" -> handle_unmap_notify(st, event, replies)
      [] name = "handle_destroy_notify" -> handle_destroy_notify(st, event, replies)
      [] name = "handle_configure_request" ->
            handle_configure_request(st, event, replies)
      [] name = "handle_key_press" -> handle_key_press(st, event, replies)

\* the call of one handler: the handler is entered, then its body runs
call_handler(name, st, event, replies) ==
    handler_body(name, [st EXCEPT !.invoked = Append(@, name)], event, replies)

RECURSIVE call_handlers(_, _, _, _)
call_handlers(names, st, event, replies) ==
    IF names = <<>> THEN st
    ELSE call_handlers(Tail(names),
            call_handler(Head(names), st, event, replies), event, replies)

(* ------------------------------- events ------------------------------- *)

\* an event with every field zero, and the replies of the server and of the
\* other components when nothing special happens
blank_event ==
    [response_type |-> 0, window |-> XCB_NONE, child |-> XCB_NONE,
     root_x |-> 0, root_y |-> 0, atom |-> "", x |-> 0, y |-> 0, width |-> 0,
     height |-> 0, border_width |-> 0, state |-> 0, key_symbol |-> 0]
usual_replies ==
    [geometry |-> TRUE, predicted |-> "SHOWN", allowed |-> TRUE,
     source |-> "defaults"]

\* what the configuration source holds when the configuration is reloaded:
\* no bindings, or a key binding of the user
ConfigurationSources == {"defaults", "user"}

\* the response types carrying an event code: sent by the server, or with the
\* 0x80 bit set by another client's SendEvent
response_types(code) == {code, code + 128}

\* requested x, y, width, height and border width of configure requests
ConfigureRequests == {<<0, 1, 5, 6, 2>>, <<1, 0, 7, 5, 0>>}

\* modifier state and key symbol of key presses
KeyPresses ==
    {<<XCB_MOD_MASK_4, XK_q>>,
     <<BitOr(XCB_MOD_MASK_4, XCB_MOD_MASK_SHIFT), XK_r>>,
     <<XCB_MOD_MASK_4, XK_e>>}

\* first event codes of the randr extension when it starts at 89
RandrEvents == {89, 90}

\* where the pointer is when only one place of it is looked at
PointerRest == <<1, 0>>

\* every place of the pointer on the screen
PointerPlaces == Coordinates \X Coordinates

\* map requests for the windows W, the new window predicted to be in one of
\* the states P
map_requests(W, P) ==
    {[event |-> [blank_event EXCEPT !.response_type = t, !.window = w],
      replies |-> [usual_replies EXCEPT !.predicted = p]] :
        t \in response_types(XCB_MAP_REQUEST), w \in W, p \in P}

\* width and height of every window
WindowSize == 2

\* the server names w as the child of a button press with the pointer at the
\* place `at`: the pointer is inside the window, or w is no window
under_pointer(positions, w, at) ==
    \/ w = XCB_NONE
    \/ /\ at[1] - positions[w].x \in 0..(WindowSize - 1)
       /\ at[2] - positions[w].y \in 0..(WindowSize - 1)

\* button presses, motions and the button release with the pointer at one of
\* the places, the geometry request answered or not; the child of a button
\* press is a window the pointer is in
pointer_events(places) ==
    {input \in
        {[event |-> [blank_event EXCEPT !.response_type = t, !.child = w,
                                        !.root_x = at[1], !.root_y = at[2]],
          replies |-> [usual_replies EXCEPT !.geometry = g]] :
            t \in response_types(XCB_BUTTON_PRESS),
            w \in XcbWindows \cup {XCB_NONE}, at \in places, g \in BOOLEAN} :
        under_pointer(geometries, input.event.child,
            <<input.event.root_x, input.event.root_y>>)}
    \cup
    {[event |-> [blank_event EXCEPT !.response_type = t,
                                    !.root_x = at[1], !.root_y = at[2]],
      replies |-> [usual_replies EXCEPT !.geometry = g]] :
        t \in response_types(XCB_MOTION_NOTIFY), at \in places,
        g \in BOOLEAN}
    \cup
    {[event |-> [blank_event EXCEPT !.response_type = t],
      replies |-> usual_replies] :
        t \in response_types(XCB_BUTTON_RELEASE)}

\* the events of the other kinds, each with the replies its handling receives
other_events ==
    {[event |-> [blank_event EXCEPT !.response_type = t],
      replies |-> usual_replies] :
        t \in response_types(XCB_KEY_RELEASE)
                \cup response_types(XCB_MAP_NOTIFY)
                \cup UNION {response_types(r) : r \in RandrEvents}}
    \cup
    {[event |-> [blank_event EXCEPT !.response_type = t, !.window = w,
                                    !.atom = a],
      replies |-> [usual_replies EXCEPT !.predicted = p, !.allowed = f]] :
        t \in response_types(XCB_PROPERTY_NOTIFY), w \in XcbWindows,
        a \in Atoms, p \in WindowStates, f \in BOOLEAN}
    \cup
    {[event |-> [blank_event EXCEPT !.response_type = t, !.window = w],
      replies |-> usual_replies] :
        t \in response_types(XCB_UNMAP_NOTIFY)
                \cup response_types(XCB_DESTROY_NOTIFY),
        w \in XcbWindows}
    \cup
    {[event |-> [blank_event EXCEPT !.response_type = t, !.window = w,
                    !.x = c[1], !.y = c[2], !.width = c[3], !.height = c[4],
                    !.border_width = c[5]],
      replies |-> usual_replies] :
        t \in response_types(XCB_CONFIGURE_REQUEST), w \in XcbWindows,
        c \in ConfigureRequests}
    \cup
    {[event |-> [blank_event EXCEPT !.response_type = t, !.state = k[1],
                                    !.key_symbol = k[2]],
      replies |-> [usual_replies EXCEPT !.source = source]] :
        t \in response_types(XCB_KEY_PRESS), k \in KeyPresses,
        source \in ConfigurationSources}

\* the events of every kind that may arrive, the pointer resting at one place
Inputs ==
    map_requests(XcbWindows, {"POPUP", "SHOWN"})
        \cup pointer_events({PointerRest}) \cup other_events

\* an input that can move a window: a button press over window 1 or a motion,
\* the geometry request answered
moves_window(input) ==
    /\ input.replies.geometry
    /\ \/ input.event.response_type = XCB_MOTION_NOTIFY
       \/ /\ input.event.response_type = XCB_BUTTON_PRESS
          /\ input.event.child = 1

\* the events of moving a window with the pointer, as the server sends them:
\* window 1 appears as a popup window, window 2 as an ordinary one; the
\* inputs that can move a window come with the pointer at every place, the
\* other button presses and motions with the pointer resting
PointerInputs ==
    {input \in map_requests({1}, {"POPUP"}) \cup map_requests({2}, {"SHOWN"})
                \cup pointer_events(PointerPlaces) :
        /\ input.event.response_type < 128
        /\ \/ moves_window(input)
           \/ <<input.event.root_x, input.event.root_y>> = PointerRest
           \/ input.event.response_type \in
                {XCB_BUTTON_RELEASE, XCB_MAP_REQUEST}}

\* the program state a handler reads and writes, with the logs of the
\* handlers called, of what they send to the server and of what they call in
\* other components
current_state ==
    [configuration |-> configuration, heap |-> heap,
     selected_window |-> selected_window, pointer_grab |-> pointer_grab,
     windows |-> windows, geometries |-> geometries,
     invoked |-> <<>>, requests |-> <<>>, calls |-> <<>>]

\* the fields of an event the handlers read: all but the response type
event_fields(event) ==
    [field \in DOMAIN event \ {"response_type"} |-> event[field]]

\* the window and pointer positions when event, a button press, made
\* handle_button_press() request the pointer grab; origin when it did not
origin_after(origin, requests, event, positions) ==
    IF \E i \in DOMAIN requests : requests[i][1] = "xcb_grab_pointer"
    THEN [position |-> positions[event.child],
          pointer |-> [x |-> event.root_x, y |-> event.root_y]]
    ELSE origin

\* handle_event() on one of the events of inputs
dispatch(inputs) ==
    \E input \in inputs :
        \E after \in {call_handlers(
                        called_handlers(event_type(input.event.response_type),
                            randr_event_base),
                        current_state, input.event, input.replies)} :
            /\ selected_window' = after.selected_window
            /\ pointer_grab' = after.pointer_grab
            /\ windows' = after.windows
            /\ geometries' = after.geometries
            /\ handled' =
                [type |-> event_type(input.event.response_type),
                 event |-> event_fields(input.event),
                 replies |-> input.replies,
                 invoked |-> after.invoked,
                 geometry |-> input.replies.geometry,
                 requests |-> after.requests, calls |-> after.calls]
            /\ grab_origin' = origin_after(grab_origin, after.requests,
                                input.event, geometries)
            /\ configuration' = after.configuration
            /\ heap' = after.heap
            /\ UNCHANGED <<randr_event_base, key_call, button_call>>

\* void handle_event(xcb_generic_event_t *event)
handle_event == dispatch(Inputs)

\* handle_event() while windows are moved with the pointer
handle_pointer_event == dispatch(PointerInputs)

(* ------------------------------ startup ------------------------------- *)

\* a merge function has not been called yet on cfg
not_called(cfg, mem) ==
    [calls |-> 0, configuration |-> cfg, heap |-> mem, cursor |-> 0]

\* handle_event() has not run yet
nothing_handled ==
    [type |-> -1, event |-> event_fields(blank_event),
     replies |-> usual_replies,
     invoked |-> <<>>, geometry |-> TRUE, requests |-> <<>>, calls |-> <<>>]

\* no button press has grabbed the pointer yet
no_grab_origin ==
    [position |-> [x |-> 0, y |-> 0], pointer |-> [x |-> 0, y |-> 0]]

\* the window manager before any window exists and any event arrives
EventsIdle ==
    /\ randr_event_base = 89
    /\ selected_window = no_selected_window
    /\ pointer_grab = FALSE
    /\ windows = [w \in XcbWindows |-> "none"]
    /\ geometries = [w \in XcbWindows |-> [x |-> 0, y |-> 0]]
    /\ handled = nothing_handled
    /\ grab_origin = no_grab_origin

\* a configuration as its source defines it, before the defaults are merged
MergeInit ==
    /\ \E user_keys \in SeqUpTo(UserKeys, MaxUserKeys),
          user_buttons \in SeqUpTo(UserButtons, MaxUserButtons),
          modifiers \in TableModifiers :
            LET made == install_bindings(
                            empty_configuration(modifiers[1], modifiers[2]),
                            StaticStorage, user_keys, user_buttons)
            IN  /\ configuration = made.configuration
                /\ heap = made.heap
                /\ key_call = not_called(made.configuration, made.heap)
                /\ button_call = not_called(made.configuration, made.heap)
    /\ EventsIdle

\* the number of calls a history remembers: none, one, or more than one
called_again(calls) == IF calls = 0 THEN 1 ELSE 2

\* void merge_with_default_key_bindings(struct configuration *configuration)
merge_with_default_key_bindings ==
    \E merged \in {merged_key_bindings(configuration, heap)} :
        /\ configuration' = merged.configuration
        /\ heap' = merged.heap
        /\ key_call' = [calls |-> called_again(key_call.calls),
                        configuration |-> configuration, heap |-> heap,
                        cursor |-> merged.cursor]
        /\ UNCHANGED <<button_call, event_vars>>

\* void merge_with_default_button_bindings(struct configuration *configuration)
merge_with_default_button_bindings ==
    \E merged \in {merged_button_bindings(configuration, heap)} :
        /\ configuration' = merged.configuration
        /\ heap' = merged.heap
        /\ button_call' = [calls |-> called_again(button_call.calls),
                           configuration |-> configuration, heap |-> heap,
                           cursor |-> merged.cursor]
        /\ UNCHANGED <<key_call, event_vars>>

\* the event dispatcher keeps no history of the calls of the merges
no_history == [calls |-> 0, configuration |-> <<>>, heap |-> <<>>,
               cursor |-> 0]

\* the window manager after load_default_configuration(), before the first
\* event, with the first event code of randr the server has announced
EventInit ==
    /\ configuration = load_default_configuration.configuration
    /\ heap = load_default_configuration.heap
    /\ key_call = no_history
    /\ button_call = no_history
    /\ randr_event_base \in ExtensionBases
    /\ selected_window = no_selected_window
    /\ pointer_grab = FALSE
    /\ windows = [w \in XcbWindows |-> "none"]
    /\ geometries = [w \in XcbWindows |-> [x |-> 0, y |-> 0]]
    /\ handled = nothing_handled
    /\ grab_origin = no_grab_origin

MergeNext ==
    \/ merge_with_default_key_bindings
    \/ merge_with_default_button_bindings

MergeSpec == MergeInit /\ [][MergeNext]_vars

EventNext == handle_event

EventSpec == EventInit /\ [][EventNext]_vars

GrabNext == handle_pointer_event

GrabSpec == EventInit /\ [][GrabNext]_vars

(* ===================== properties of the two merges =================== *)

key_trigger(key) == <<key.modifiers, key.key_symbol, key.flags>>
button_trigger(button) == <<button.modifiers, button.index, button.flags>>

\* effective trigger of a default under the table wide modifiers
default_key_trigger(cfg, d) ==
    <<BitOr(d.modifiers, cfg.keyboard.modifiers), d.key_symbol, d.flags>>
default_button_trigger(cfg, d) ==
    <<BitOr(d.modifiers, cfg.mouse.modifiers), d.button_index, d.flags>>

\* triggers of the bindings a configuration defines
key_triggers(cfg) ==
    {key_trigger(cfg.keyboard.keys[i]) : i \in 1..cfg.keyboard.number_of_keys}
button_triggers(cfg) ==
    {button_trigger(cfg.mouse.buttons[i]) : i \in 1..cfg.mouse.number_of_buttons}

\* an action by value: its code and what its parameter holds by its type
action_value(mem, action) ==
    [code |-> action.code,
     quad |-> IF get_action_data_type(action.code) = "quad"
              THEN action.parameter.quad ELSE <<>>,
     bytes |-> IF get_action_data_type(action.code) = "string"
                    /\ action.parameter.string # NULL
               THEN mem[action.parameter.string].bytes ELSE ""]

\* the actions of a binding by value
actions_value(mem, binding) ==
    [n \in 1..Len(mem[binding.actions].actions) |->
        action_value(mem, mem[binding.actions].actions[n])]

\* the table before the last call of each merge, and its count
old_keys == key_call.configuration.keyboard
old_buttons == button_call.configuration.mouse

\* indices of the defaults whose effective trigger the old table lacks, in
\* declaration order
absent_key_defaults ==
    SelectSeq([j \in 1..Len(default_key_bindings) |-> j],
        LAMBDA j : default_key_trigger(key_call.configuration,
                        default_key_bindings[j])
                    \notin key_triggers(key_call.configuration))
absent_button_defaults ==
    SelectSeq([j \in 1..Len(default_button_bindings) |-> j],
        LAMBDA j : default_button_trigger(button_call.configuration,
                        default_button_bindings[j])
                    \notin button_triggers(button_call.configuration))

\* C1 (merge non-destructiveness): after a merge every binding the table held
\* before the call is at the same index with the same modifiers, symbol or
\* index, flags, action count, action codes and payloads, also when a default
\* has the same effective trigger.
C1_MergeNonDestructive ==
    /\ key_call.calls > 0 =>
        \A i \in 1..old_keys.number_of_keys :
            /\ i <= configuration.keyboard.number_of_keys
            /\ configuration.keyboard.keys[i].modifiers = old_keys.keys[i].modifiers
            /\ configuration.keyboard.keys[i].key_symbol = old_keys.keys[i].key_symbol
            /\ configuration.keyboard.keys[i].flags = old_keys.keys[i].flags
            /\ configuration.keyboard.keys[i].number_of_actions
                    = old_keys.keys[i].number_of_actions
            /\ actions_value(heap, configuration.keyboard.keys[i])
                    = actions_value(key_call.heap, old_keys.keys[i])
    /\ button_call.calls > 0 =>
        \A i \in 1..old_buttons.number_of_buttons :
            /\ i <= configuration.mouse.number_of_buttons
            /\ configuration.mouse.buttons[i].modifiers = old_buttons.buttons[i].modifiers
            /\ configuration.mouse.buttons[i].index = old_buttons.buttons[i].index
            /\ configuration.mouse.buttons[i].flags = old_buttons.buttons[i].flags
            /\ configuration.mouse.buttons[i].number_of_actions
                    = old_buttons.buttons[i].number_of_actions
            /\ actions_value(heap, configuration.mouse.buttons[i])
                    = actions_value(button_call.heap, old_buttons.buttons[i])

\* C1 witness: both merges ran on tables in which a user binding has the
\* effective trigger of a default, and both added other defaults.
C1_Witness ==
    /\ key_call.calls = 1
    /\ button_call.calls = 1
    /\ \E i \in 1..old_keys.number_of_keys, j \in 1..Len(default_key_bindings) :
        /\ key_trigger(old_keys.keys[i])
            = default_key_trigger(key_call.configuration, default_key_bindings[j])
        /\ actions_value(heap, configuration.keyboard.keys[i])[1]
            # action_value(heap, default_key_bindings[j].action)
    /\ \E i \in 1..old_buttons.number_of_buttons,
          j \in 1..Len(default_button_bindings) :
        button_trigger(old_buttons.buttons[i])
            = default_button_trigger(button_call.configuration,
                default_button_bindings[j])
    /\ configuration.keyboard.number_of_keys > old_keys.number_of_keys
    /\ configuration.mouse.number_of_buttons > old_buttons.number_of_buttons

\* indices of the bindings of a table that have the given trigger
keys_with_trigger(cfg, trigger) ==
    {i \in 1..cfg.keyboard.number_of_keys :
        key_trigger(cfg.keyboard.keys[i]) = trigger}
buttons_with_trigger(cfg, trigger) ==
    {i \in 1..cfg.mouse.number_of_buttons :
        button_trigger(cfg.mouse.buttons[i]) = trigger}

\* C2 (merge completeness): after a merge, for every default whose effective
\* trigger was absent from the table before the merge, the table holds exactly
\* one binding with that trigger, and that binding has exactly one action,
\* equal by value to the template of the default.
C2_MergeComplete ==
    /\ key_call.calls > 0 =>
        \A absent \in {absent_key_defaults} : \A n \in 1..Len(absent) :
            LET d == default_key_bindings[absent[n]]
                at == keys_with_trigger(configuration,
                        default_key_trigger(key_call.configuration, d))
            IN  /\ Cardinality(at) = 1
                /\ \A i \in at :
                    /\ configuration.keyboard.keys[i].number_of_actions = 1
                    /\ actions_value(heap, configuration.keyboard.keys[i])
                        = <<action_value(heap, d.action)>>
    /\ button_call.calls > 0 =>
        \A absent \in {absent_button_defaults} : \A n \in 1..Len(absent) :
            LET d == default_button_bindings[absent[n]]
                at == buttons_with_trigger(configuration,
                        default_button_trigger(button_call.configuration, d))
            IN  /\ Cardinality(at) = 1
                /\ \A i \in at :
                    /\ configuration.mouse.buttons[i].number_of_actions = 1
                    /\ actions_value(heap, configuration.mouse.buttons[i])
                        = <<action_value(heap, d.action)>>

\* whether the triggers of a table are pairwise distinct
distinct_key_triggers(cfg) ==
    Cardinality(key_triggers(cfg)) = cfg.keyboard.number_of_keys
distinct_button_triggers(cfg) ==
    Cardinality(button_triggers(cfg)) = cfg.mouse.number_of_buttons

\* C3 (trigger uniqueness): a table a merge produces from a table with
\* pairwise distinct triggers has pairwise distinct triggers, whatever the
\* table wide modifiers are.
C3_TriggersUnique ==
    /\ (key_call.calls > 0 /\ distinct_key_triggers(key_call.configuration))
        => distinct_key_triggers(configuration)
    /\ (button_call.calls > 0
            /\ distinct_button_triggers(button_call.configuration))
        => distinct_button_triggers(configuration)

\* C4 (merge idempotence): a merge called on a table a merge has already
\* completed changes nothing: no binding is added, the count is unchanged and
\* the table equals the result of the first merge.
C4_MergeIdempotent ==
    /\ key_call.calls = 2 =>
        /\ configuration.keyboard = old_keys
        /\ \A i \in 1..old_keys.number_of_keys :
            actions_value(heap, configuration.keyboard.keys[i])
                = actions_value(key_call.heap, old_keys.keys[i])
    /\ button_call.calls = 2 =>
        /\ configuration.mouse = old_buttons
        /\ \A i \in 1..old_buttons.number_of_buttons :
            actions_value(heap, configuration.mouse.buttons[i])
                = actions_value(button_call.heap, old_buttons.buttons[i])

\* C4 witness: each merge has been called again on its own result, and the
\* first call had added defaults.
C4_Witness ==
    /\ key_call.calls = 2
    /\ button_call.calls = 2
    /\ old_keys.number_of_keys >= Len(default_key_bindings)
    /\ old_buttons.number_of_buttons >= Len(default_button_bindings)
    /\ old_keys.number_of_keys > MaxUserKeys
    /\ old_buttons.number_of_buttons > MaxUserButtons

\* C5 (merge ordering and count): the merge leaves old_count + n_new bindings,
\* n_new being the number of defaults whose effective trigger was absent; the
\* added bindings are the slots old_count .. old_count + n_new - 1, in the
\* declaration order of their defaults.
C5_MergeAppendsInOrder ==
    /\ key_call.calls > 0 =>
        \A absent \in {absent_key_defaults} :
            /\ configuration.keyboard.number_of_keys
                = old_keys.number_of_keys + Len(absent)
            /\ Len(configuration.keyboard.keys)
                = configuration.keyboard.number_of_keys
            /\ \A n \in 1..Len(absent) :
                LET d == default_key_bindings[absent[n]]
                    key == configuration.keyboard.keys[
                                old_keys.number_of_keys + n]
                IN  /\ key_trigger(key)
                        = default_key_trigger(key_call.configuration, d)
                    /\ actions_value(heap, key)
                        = <<action_value(heap, d.action)>>
    /\ button_call.calls > 0 =>
        \A absent \in {absent_button_defaults} :
            /\ configuration.mouse.number_of_buttons
                = old_buttons.number_of_buttons + Len(absent)
            /\ Len(configuration.mouse.buttons)
                = configuration.mouse.number_of_buttons
            /\ \A n \in 1..Len(absent) :
                LET d == default_button_bindings[absent[n]]
                    button == configuration.mouse.buttons[
                                old_buttons.number_of_buttons + n]
                IN  /\ button_trigger(button)
                        = default_button_trigger(button_call.configuration, d)
                    /\ actions_value(heap, button)
                        = <<action_value(heap, d.action)>>

\* C5 witness: both merges ran on tables that held two, respectively one, user
\* bindings, of which one has the trigger of a default, so that some but not
\* all defaults were added behind them.
C5_Witness ==
    /\ key_call.calls = 1
    /\ button_call.calls = 1
    /\ old_keys.number_of_keys = 2
    /\ old_buttons.number_of_buttons = 1
    /\ Len(absent_key_defaults) \in 1..(Len(default_key_bindings) - 1)
    /\ Len(absent_button_defaults) \in 1..(Len(default_button_bindings) - 1)
    /\ configuration.keyboard.number_of_keys
            = 2 + Len(absent_key_defaults)

\* every binding of a configuration, keys first
all_bindings(cfg) ==
    SubSeq(cfg.keyboard.keys, 1, cfg.keyboard.number_of_keys)
        \o SubSeq(cfg.mouse.buttons, 1, cfg.mouse.number_of_buttons)

\* the string pointers the actions of a binding hold
string_pointers(mem, binding) ==
    {mem[binding.actions].actions[n].parameter.string :
        n \in {m \in 1..Len(mem[binding.actions].actions) :
                get_action_data_type(mem[binding.actions].actions[m].code)
                    = "string"}}

\* the heap after the bytes of the string at pointer are overwritten or freed
overwritten(mem, pointer) == [mem EXCEPT ![pointer].bytes = "(overwritten)"]

\* binding number n of all_bindings owns its storage: its action array and
\* its strings were allocated after `before`, no other binding and no static
\* storage shares them, and overwriting one of its strings changes neither the
\* literal of the template nor the actions of any other binding, nor does
\* overwriting the literal change its actions
owns_storage(mem, before, bindings, n) ==
    LET own == bindings[n]
        others == {m \in 1..Len(bindings) : m # n}
    IN  /\ own.actions > Len(before)
        /\ \A m \in others : bindings[m].actions # own.actions
        /\ \A s \in string_pointers(mem, own) :
            /\ s > Len(before)
            /\ s # own.actions
            /\ \A m \in others : s \notin string_pointers(mem, bindings[m])
            /\ overwritten(mem, s)[TerminalLiteral] = mem[TerminalLiteral]
            /\ \A m \in others :
                actions_value(overwritten(mem, s), bindings[m])
                    = actions_value(mem, bindings[m])
        /\ actions_value(overwritten(mem, TerminalLiteral), own)
            = actions_value(mem, own)

\* C6 (deep-copy independence): every action a merge appends owns storage that
\* is distinct from the template of its default and from the actions of every
\* other binding, so that overwriting or releasing its payload leaves the
\* payload of the template unchanged, and the other way round.
C6_AppendedActionsOwnStorage ==
    /\ key_call.calls > 0 =>
        \A i \in (old_keys.number_of_keys + 1)..configuration.keyboard.number_of_keys :
            owns_storage(heap, key_call.heap, all_bindings(configuration), i)
    /\ button_call.calls > 0 =>
        \A i \in (old_buttons.number_of_buttons + 1)
                    ..configuration.mouse.number_of_buttons :
            owns_storage(heap, button_call.heap, all_bindings(configuration),
                configuration.keyboard.number_of_keys + i)

\* C6 witness: the key merge has appended the default ACTION_RUN binding, whose
\* payload is an owned text, to a table in which a user binding runs a command
\* too, and the button merge has appended bindings as well.
C6_Witness ==
    /\ key_call.calls = 1
    /\ button_call.calls = 1
    /\ configuration.mouse.number_of_buttons > old_buttons.number_of_buttons
    /\ \E i \in 1..old_keys.number_of_keys :
        string_pointers(heap, configuration.keyboard.keys[i]) # {}
    /\ \E i \in (old_keys.number_of_keys + 1)..configuration.keyboard.number_of_keys :
        /\ string_pointers(heap, configuration.keyboard.keys[i]) # {}
        /\ actions_value(heap, configuration.keyboard.keys[i])[1].bytes
            = TerminalCommand

(* =================== properties of the event dispatcher =============== *)

\* the requests of one kind the last handle_event() sent to the server, and
\* the calls of one kind it made in other components
requests_sent(what) ==
    {i \in DOMAIN handled.requests : handled.requests[i][1] = what}
calls_made(what) ==
    {i \in DOMAIN handled.calls : handled.calls[i][1] = what}

\* the state of the window manager the handlers of core events work on
core_state ==
    <<selected_window, pointer_grab, windows, geometries, configuration, heap>>

\* C7: Extension precedence. Whenever handle_event() handles an event whose
\* type (the response type with bit 0x80 cleared) is at or above
\* randr_event_base, whatever the base is, it calls handle_screen_change(),
\* which queries the monitors and then merges them, and no handler of a core
\* event: nothing is sent to the server and the state the core handlers work
\* on is unchanged, also when the type is the code of a key press or of a
\* button press.
C7_ExtensionPrecedence ==
    [][handled'.type >= randr_event_base =>
        /\ handled'.invoked = <<"handle_screen_change">>
        /\ handled'.calls = <<<<"query_monitors">>, <<"merge_monitors">>>>
        /\ handled'.requests = <<>>
        /\ UNCHANGED core_state]_vars

\* C7 witness: randr_event_base is not above the code of a key press and the
\* event just handled was a key press, answered by the screen change handler
C7_Witness ==
    /\ randr_event_base <= XCB_KEY_PRESS
    /\ handled.type = XCB_KEY_PRESS
    /\ handled.invoked = <<"handle_screen_change">>
    /\ calls_made("merge_monitors") # {}

\* C8: Grab termination. After a button release, and after a motion whose
\* geometry query failed, the pointer grab is released (the ungrab request is
\* sent, the server holds no grab for the window manager) and the grab state
\* is cleared: selected_window designates no window any more.
C8_GrabTermination ==
    (\/ handled.invoked = <<"handle_button_release">>
     \/ /\ handled.invoked = <<"handle_motion_notify">>
        /\ requests_sent("xcb_configure_window") = {})
        => /\ requests_sent("xcb_ungrab_pointer") # {}
           /\ pointer_grab = FALSE
           /\ selected_window.xcb_window = XCB_NONE

\* C9: Motion without a grab. A motion notify handled while the window
\* manager holds no pointer grab (before any button press, after a button
\* release, after a failed geometry query) has no side effect: no window is
\* asked to move, no window moves, and selected_window is unchanged.
C9_MotionWithoutGrab ==
    [][(handled'.invoked = <<"handle_motion_notify">> /\ ~pointer_grab) =>
        /\ \A i \in DOMAIN handled'.requests :
                handled'.requests[i][1] # "xcb_configure_window"
        /\ UNCHANGED <<selected_window, geometries>>]_vars

\* the nine kinds of core events the window manager handles, each with the
\* handler of that kind
handler_of_kind ==
    [kind \in {XCB_MAP_REQUEST, XCB_BUTTON_PRESS, XCB_MOTION_NOTIFY,
               XCB_BUTTON_RELEASE, XCB_PROPERTY_NOTIFY, XCB_UNMAP_NOTIFY,
               XCB_DESTROY_NOTIFY, XCB_CONFIGURE_REQUEST, XCB_KEY_PRESS} |->
        CASE kind = XCB_MAP_REQUEST -> "handle_map_request"
          [] kind = XCB_BUTTON_PRESS -> "handle_button_press"
          [] kind = XCB_MOTION_NOTIFY -> "handle_motion_notify"
          [] kind = XCB_BUTTON_RELEASE -> "handle_button_release"
          [] kind = XCB_PROPERTY_NOTIFY -> "handle_property_notify"
          [] kind = XCB_UNMAP_NOTIFY -> "handle_unmap_notify"
          [] kind = XCB_DESTROY_NOTIFY -> "handle_destroy_notify"
          [] kind = XCB_CONFIGURE_REQUEST -> "handle_configure_request"
          [] kind = XCB_KEY_PRESS -> "handle_key_press"]

\* C10: Dispatch. Whenever handle_event() handles an event whose type is
\* below randr_event_base: if the type is one of the nine handled kinds, the
\* handler of that kind is called and no other; otherwise no handler is
\* called, nothing is sent or called, and no state changes. No event, of
\* whatever type, has more than one handler called.
C10_Dispatch ==
    [][/\ Len(handled'.invoked) <= 1
       /\ handled'.type < randr_event_base =>
            IF handled'.type \in DOMAIN handler_of_kind
            THEN handled'.invoked = <<handler_of_kind[handled'.type]>>
            ELSE /\ handled'.invoked = <<>>
                 /\ handled'.requests = <<>>
                 /\ handled'.calls = <<>>
                 /\ UNCHANGED core_state]_vars

\* C10 witness: a window was mapped as a popup window and a button press on it
\* started a grab, each through the handler of its kind, and the event just
\* handled was a key release, below randr_event_base and of no handled kind
C10_Witness ==
    /\ handled.type = XCB_KEY_RELEASE
    /\ handled.type < randr_event_base
    /\ handled.invoked = <<>>
    /\ \E w \in XcbWindows :
        windows[w] = "POPUP" /\ selected_window.xcb_window = w
    /\ pointer_grab

\* the last event was a button press over a tracked window in popup state
\* and the geometry of that window was available
press_started_grab ==
    /\ handled.invoked = <<"handle_button_press">>
    /\ get_window_of_xcb_window(windows, handled.event.child) # NULL
    /\ windows[handled.event.child] = "POPUP"
    /\ handled.replies.geometry

\* C11: Grab start. After a button press over a tracked window in popup state
\* whose geometry query succeeded, selected_window holds start = (root_y,
\* root_y), old_mouse = (root_x, root_y) and the window under the pointer, and
\* the pointer grab was requested once, for button release and button motion
\* events, and is held.
C11_GrabStart ==
    press_started_grab =>
        /\ selected_window =
            [start |-> [x |-> handled.event.root_y,
                        y |-> handled.event.root_y],
             old_mouse |-> [x |-> handled.event.root_x,
                            y |-> handled.event.root_y],
             xcb_window |-> handled.event.child]
        /\ pointer_grab
        /\ Cardinality(requests_sent("xcb_grab_pointer")) = 1
        /\ \A i \in requests_sent("xcb_grab_pointer") :
                handled.requests[i][2] = {"XCB_EVENT_MASK_BUTTON_RELEASE",
                                          "XCB_EVENT_MASK_BUTTON_MOTION"}

\* C11 witness: a grab was started with the pointer at a place whose two
\* coordinates differ
C11_Witness ==
    /\ press_started_grab
    /\ handled.event.root_x # handled.event.root_y
    /\ selected_window.start.x = handled.event.root_y
    /\ pointer_grab

\* C12: Motion step. A motion notify handled while the pointer grab is held
\* and the geometry of the grabbed window is available sends exactly one
\* xcb_configure_window, for the grabbed window and its x and y, to
\* (geometry.x + root_x - old_mouse.x, geometry.y + root_y - old_mouse.y),
\* and sets old_mouse to (root_x, root_y); the grabbed window, start and the
\* pointer grab are unchanged.
C12_MotionStep ==
    [][(/\ handled'.invoked = <<"handle_motion_notify">>
        /\ pointer_grab
        /\ handled'.replies.geometry
        /\ selected_window.xcb_window \in XcbWindows) =>
        /\ \E i \in DOMAIN handled'.requests :
            /\ handled'.requests[i] =
                <<"xcb_configure_window", selected_window.xcb_window,
                  <<"XCB_CONFIG_WINDOW_X", "XCB_CONFIG_WINDOW_Y">>,
                  <<geometries[selected_window.xcb_window].x
                        + handled'.event.root_x - selected_window.old_mouse.x,
                    geometries[selected_window.xcb_window].y
                        + handled'.event.root_y - selected_window.old_mouse.y>>>>
            /\ \A j \in DOMAIN handled'.requests :
                handled'.requests[j][1] = "xcb_configure_window" => j = i
        /\ selected_window' =
            [selected_window EXCEPT !.old_mouse =
                [x |-> handled'.event.root_x, y |-> handled'.event.root_y]]
        /\ pointer_grab']_vars

\* C12 witness: during a grab a motion has moved the grabbed window from
\* (0, 0) to (1, 1), and old_mouse is where the pointer is
C12_Witness ==
    /\ handled.invoked = <<"handle_motion_notify">>
    /\ pointer_grab
    /\ requests_sent("xcb_configure_window") # {}
    /\ selected_window.xcb_window \in XcbWindows
    /\ geometries[selected_window.xcb_window] = [x |-> 1, y |-> 1]
    /\ selected_window.old_mouse =
        [x |-> handled.event.root_x, y |-> handled.event.root_y]

\* the fields of a window xcb_configure_window() can set, in the order of
\* their bits in the value mask (bit k - 1 for field k)
config_fields == <<"x", "y", "width", "height", "border_width">>

RECURSIVE power_of_two(_)
power_of_two(n) == IF n = 0 THEN 1 ELSE 2 * power_of_two(n - 1)

mask_has(mask, k) == (mask \div power_of_two(k - 1)) % 2 = 1

\* what the server does with a value list: the values are taken in order,
\* one for every bit set in the mask, lowest bit first; fields without a bit
\* are not set (-1)
values_by_field(mask, values) ==
    [field \in {config_fields[k] : k \in DOMAIN config_fields} |->
        LET k == CHOOSE k \in DOMAIN config_fields : config_fields[k] = field
            place == Cardinality({j \in 1..k : mask_has(mask, j)})
        IN  IF mask_has(mask, k) /\ place <= Len(values)
            THEN values[place]
            ELSE -1]

\* C13: Configure request. For a managed window handle_configure_request()
\* sends nothing and changes no state. For an unmanaged window it sends
\* exactly one xcb_configure_window for that window, and the server sets x,
\* y, width, height and border width each to the value the event requested
\* for it.
C13_ConfigureRequest ==
    [][handled'.invoked = <<"handle_configure_request">> =>
        IF windows[handled'.event.window] # "none"
        THEN /\ handled'.requests = <<>>
             /\ handled'.calls = <<>>
             /\ UNCHANGED core_state
        ELSE /\ Len(handled'.requests) = 1
             /\ handled'.requests[1][1] = "xcb_configure_window"
             /\ handled'.requests[1][2] = handled'.event.window
             /\ values_by_field(handled'.requests[1][3],
                                handled'.requests[1][4]) =
                    [field \in {config_fields[k] : k \in DOMAIN config_fields}
                        |-> handled'.event[field]]]_vars

\* C13 witness: an unmanaged window asked for width 7, height 5 at (1, 0)
\* while another window is managed, and the request was passed on
C13_Witness ==
    /\ handled.invoked = <<"handle_configure_request">>
    /\ windows[handled.event.window] = "none"
    /\ \E w \in XcbWindows : windows[w] # "none"
    /\ handled.event.width = 7
    /\ requests_sent("xcb_configure_window") # {}

\* the bindings of the key table a key press event triggers: those with the
\* modifiers and the key symbol of the event and no flags
bindings_triggered(cfg, event) ==
    {i \in 1..cfg.keyboard.number_of_keys :
        key_trigger(cfg.keyboard.keys[i]) =
            <<event.state, event.key_symbol, 0>>}

\* what a key press does besides the binding table: the action engine is
\* called exactly once, with the action of a binding the key triggers, when
\* there is one; else it is not called, nothing is sent and no state changes
key_press_calls_engine ==
    IF bindings_triggered(configuration, handled'.event) # {}
    THEN /\ Len(handled'.calls) = 1
         /\ \E i \in bindings_triggered(configuration, handled'.event) :
             handled'.calls[1] =
                 <<"do_action",
                   heap[configuration.keyboard.keys[i].actions]
                         .actions[1].code>>
    ELSE /\ handled'.calls = <<>>
         /\ handled'.requests = <<>>
         /\ UNCHANGED core_state

\* C14 as stated: Key press. When the pressed key triggers a binding,
\* do_action() is called exactly once, with the action of a binding it
\* triggers; when it triggers none, do_action() is not called, nothing is sent
\* and no state changes. Handling a key press never changes the binding
\* table: the configuration and the storage of its actions stay as they are.
C14_KeyPress ==
    [][handled'.invoked = <<"handle_key_press">> =>
        /\ key_press_calls_engine
        /\ UNCHANGED <<configuration, heap>>]_vars

\* C14 amended: Key press. The action engine is called as C14 states. The
\* binding table changes while a key press is handled only when the bound
\* action is ACTION_RELOAD_CONFIGURATION, and then it is replaced as a whole
\* by the reloaded configuration; with any other bound action, and with none,
\* the configuration and the storage of its actions are unchanged.
C14_KeyPressReload ==
    [][handled'.invoked = <<"handle_key_press">> =>
        /\ key_press_calls_engine
        /\ IF handled'.calls = <<<<"do_action", "ACTION_RELOAD_CONFIGURATION">>>>
           THEN /\ configuration' =
                    reload_configuration(handled'.replies.source).configuration
                /\ heap' = reload_configuration(handled'.replies.source).heap
           ELSE UNCHANGED <<configuration, heap>>]_vars

\* C14 witness: Mod4+Shift+r was pressed, the configuration was reloaded, the
\* action the binding of that key holds, and the key table now begins with
\* the binding of the user, which the table before did not hold
C14_Witness ==
    /\ handled.invoked = <<"handle_key_press">>
    /\ handled.event.key_symbol = XK_r
    /\ handled.calls = <<<<"do_action", "ACTION_RELOAD_CONFIGURATION">>>>
    /\ handled.replies.source = "user"
    /\ configuration # load_default_configuration.configuration
    /\ configuration.keyboard.number_of_keys = 40
    /\ heap[configuration.keyboard.keys[1].actions].actions[1].code
        = "ACTION_RUN"

\* the grab state of the window manager: selected_window and whether the
\* pointer grab is held (GRABBED) or not (IDLE)
grab_state == <<selected_window, pointer_grab>>

\* C15: Grab state machine. Every step that changes the grab state is one of
\* four: IDLE to GRABBED by a button press over a popup window whose geometry
\* is available; GRABBED to GRABBED by a motion with the geometry available,
\* the grabbed window staying the same; GRABBED to IDLE by a motion with the
\* geometry unavailable; GRABBED to IDLE by a button release. So no other
\* handler changes the grab state, and the grabbed window does not change
\* while GRABBED.
C15_GrabStateMachine ==
    [][grab_state' # grab_state =>
        \/ /\ ~pointer_grab /\ pointer_grab'
           /\ handled'.invoked = <<"handle_button_press">>
           /\ windows[handled'.event.child] = "POPUP"
           /\ handled'.replies.geometry
        \/ /\ pointer_grab /\ pointer_grab'
           /\ handled'.invoked = <<"handle_motion_notify">>
           /\ handled'.replies.geometry
           /\ selected_window'.xcb_window = selected_window.xcb_window
        \/ /\ pointer_grab /\ ~pointer_grab'
           /\ handled'.invoked = <<"handle_motion_notify">>
           /\ ~handled'.replies.geometry
        \/ /\ pointer_grab /\ ~pointer_grab'
           /\ handled'.invoked = <<"handle_button_release">>]_vars

\* C16: Button press ignored. A button press over an untracked window, over
\* a tracked window that is not in popup state, or over a popup window whose
\* geometry query fails leaves selected_window and the pointer grab as they
\* were and requests no pointer grab.
C16_ButtonPressIgnored ==
    [][(/\ handled'.invoked = <<"handle_button_press">>
        /\ \/ get_window_of_xcb_window(windows, handled'.event.child) = NULL
           \/ windows[handled'.event.child] # "POPUP"
           \/ ~handled'.replies.geometry) =>
        /\ UNCHANGED grab_state
        /\ \A i \in DOMAIN handled'.requests :
                handled'.requests[i][1] # "xcb_grab_pointer"]_vars

\* C16 witness: during a grab, a button press over the popup window at a place
\* other than old_mouse had its geometry query fail, and nothing was grabbed
C16_Witness ==
    /\ handled.invoked = <<"handle_button_press">>
    /\ get_window_of_xcb_window(windows, handled.event.child) # NULL
    /\ windows[handled.event.child] = "POPUP"
    /\ ~handled.replies.geometry
    /\ pointer_grab
    /\ selected_window.old_mouse #
        [x |-> handled.event.root_x, y |-> handled.event.root_y]
    /\ requests_sent("xcb_grab_pointer") = {}

\* C17: Map request idempotence. A map request for a window that is tracked
\* changes nothing: no Window is created, the focus is not set, no state
\* changes. A map request for an untracked window creates exactly one Window,
\* for that window, and then gives it the focus; the window is tracked
\* afterwards and the other windows are as before. A Window is so only ever
\* created for a window that has none: no window gets a second one.
C17_MapRequestIdempotent ==
    [][handled'.invoked = <<"handle_map_request">> =>
        IF windows[handled'.event.window] # "none"
        THEN /\ handled'.calls = <<>>
             /\ handled'.requests = <<>>
             /\ UNCHANGED core_state
        ELSE /\ handled'.calls =
                    <<<<"create_window", handled'.event.window>>,
                      <<"set_focus_window", handled'.event.window>>>>
             /\ windows'[handled'.event.window] # "none"
             /\ \A w \in XcbWindows \ {handled'.event.window} :
                    windows'[w] = windows[w]
             /\ UNCHANGED <<grab_state, configuration, heap>>]_vars

\* C17 witness: both windows are tracked, each created by a map request, and
\* the map request just handled, for a tracked window, created nothing
C17_Witness ==
    /\ handled.invoked = <<"handle_map_request">>
    /\ \A w \in XcbWindows : windows[w] # "none"
    /\ handled.calls = <<>>

\* the refresh of a window attribute a changed property asks for: one for
\* each of the three recognized properties, none for any other
refresh_for(atom, window) ==
    CASE atom = "WM_NAME" -> <<<<"update_window_name", window>>>>
      [] atom = "WM_SIZE_HINTS" -> <<<<"update_window_size_hints", window>>>>
      [] atom = "WM_HINTS" -> <<<<"update_window_wm_hints", window>>>>
      [] OTHER -> <<>>

\* C18: Property notify. For an untracked window nothing is called, nothing
\* is sent and no state changes. For a tracked window the calls are, in
\* order: the refresh of the name, the size hints or the wm hints if the
\* changed property is the one of that attribute and no refresh otherwise;
\* predict_window_state(); set_window_state() with the predicted state and
\* force = 0, once. Nothing but the state of that window changes.
C18_PropertyNotify ==
    [][handled'.invoked = <<"handle_property_notify">> =>
        IF windows[handled'.event.window] = "none"
        THEN /\ handled'.calls = <<>>
             /\ handled'.requests = <<>>
             /\ UNCHANGED core_state
        ELSE /\ handled'.calls =
                    refresh_for(handled'.event.atom, handled'.event.window)
                    \o <<<<"predict_window_state", handled'.event.window>>,
                         <<"set_window_state", handled'.event.window,
                           handled'.replies.predicted, 0>>>>
             /\ \A w \in XcbWindows \ {handled'.event.window} :
                    windows'[w] = windows[w]
             /\ UNCHANGED <<grab_state, geometries, configuration, heap>>]_vars

\* C18 witness: a property that is none of the three changed on a tracked
\* window: nothing was refreshed, the state was predicted and set unforced
C18_Witness ==
    /\ handled.invoked = <<"handle_property_notify">>
    /\ handled.event.atom = "WM_CLASS"
    /\ windows[handled.event.window] # "none"
    /\ calls_made("predict_window_state") # {}
    /\ handled.calls[Len(handled.calls)][4] = 0
    /\ Len(handled.calls) = 2

\* a slot of a binding array is fully initialised as an added binding: no
\* field is left as RESIZE() made it, there is one action, and the actions
\* are an allocated Action array
initialised(mem, binding) ==
    /\ \A field \in DOMAIN binding : binding[field] # -1
    /\ binding.number_of_actions = 1
    /\ binding.actions \in DOMAIN mem
    /\ mem[binding.actions].kind = "actions"

\* C19: Two-pass consistency. After a merge, with old_count the count before
\* the call and new_count the count the first loop computed and the call
\* stored: the cursor of the second loop ends at index new_count, so the
\* second loop has written new_count - old_count bindings; the array has
\* new_count slots, so none at or beyond new_count exists to be written; and
\* every slot old_count .. new_count - 1 is fully initialised with one action.
\* For the key table and for the button table.
C19_TwoPassConsistent ==
    /\ key_call.calls >= 1 =>
        /\ key_call.cursor = configuration.keyboard.number_of_keys + 1
        /\ key_call.cursor - first_new_key(key_call.configuration) =
            configuration.keyboard.number_of_keys
                - key_call.configuration.keyboard.number_of_keys
        /\ Len(configuration.keyboard.keys) =
            configuration.keyboard.number_of_keys
        /\ \A i \in key_call.configuration.keyboard.number_of_keys + 1
                        .. configuration.keyboard.number_of_keys :
                initialised(heap, configuration.keyboard.keys[i])
    /\ button_call.calls >= 1 =>
        /\ button_call.cursor = configuration.mouse.number_of_buttons + 1
        /\ button_call.cursor - first_new_button(button_call.configuration) =
            configuration.mouse.number_of_buttons
                - button_call.configuration.mouse.number_of_buttons
        /\ Len(configuration.mouse.buttons) =
            configuration.mouse.number_of_buttons
        /\ \A i \in button_call.configuration.mouse.number_of_buttons + 1
                        .. configuration.mouse.number_of_buttons :
                initialised(heap, configuration.mouse.buttons[i])

\* C19 witness: a key table with a binding of the user and a base modifier
\* containing SHIFT, under which two defaults get the same trigger, was merged
\* once, keys were added, and the cursor ended at the new count
C19_Witness ==
    /\ key_call.calls = 1
    /\ key_call.configuration.keyboard.number_of_keys >= 1
    /\ configuration.keyboard.modifiers =
        BitOr(XCB_MOD_MASK_4, XCB_MOD_MASK_SHIFT)
    /\ configuration.keyboard.number_of_keys >
        key_call.configuration.keyboard.number_of_keys
    /\ key_call.cursor = configuration.keyboard.number_of_keys + 1

\* C20: Window follows pointer. While the pointer grab taken by a button
\* press is held, the server applies each reposition before the next geometry
\* request and nothing else moves the window, then after every motion notify
\* whose geometry request was answered the top left corner of the grabbed
\* window is its position at the button press plus the way of the pointer
\* since then (root position of the motion - root position of the press).
C20_WindowFollowsPointer ==
    (/\ handled.invoked = <<"handle_motion_notify">>
     /\ handled.replies.geometry
     /\ pointer_grab
     /\ selected_window.xcb_window \in XcbWindows) =>
        /\ geometries[selected_window.xcb_window].x =
            grab_origin.position.x
                + (handled.event.root_x - grab_origin.pointer.x)
        /\ geometries[selected_window.xcb_window].y =
            grab_origin.position.y
                + (handled.event.root_y - grab_origin.pointer.y)

\* C20 witness: a grab that began with the window away from (0, 0), where
\* an earlier grab had left it, has moved the window on in both directions
C20_Witness ==
    /\ handled.invoked = <<"handle_motion_notify">>
    /\ handled.replies.geometry
    /\ pointer_grab
    /\ selected_window.xcb_window \in XcbWindows
    /\ grab_origin.position # [x |-> 0, y |-> 0]
    /\ handled.event.root_x # grab_origin.pointer.x
    /\ handled.event.root_y # grab_origin.pointer.y
    /\ geometries[selected_window.xcb_window].x # grab_origin.position.x
    /\ geometries[selected_window.xcb_window].y # grab_origin.position.y

(* ================= properties of the default configuration ============ *)

\* the steps of load_default_configuration() were taken: on a duplicate of
\* default_configuration the button merge ran once and then the key merge
\* ran once
loaded ==
    /\ button_call.calls = 1
    /\ key_call.calls = 1
    /\ button_call.configuration = default_configuration
    /\ button_call.heap = StaticStorage
    /\ key_call.configuration # default_configuration

\* the bindings of a table by value: trigger, action count and actions
keys_by_value(cfg, mem) ==
    [i \in 1..Len(cfg.keyboard.keys) |->
        [trigger |-> key_trigger(cfg.keyboard.keys[i]),
         number_of_actions |-> cfg.keyboard.keys[i].number_of_actions,
         actions |-> actions_value(mem, cfg.keyboard.keys[i])]]
buttons_by_value(cfg, mem) ==
    [i \in 1..Len(cfg.mouse.buttons) |->
        [trigger |-> button_trigger(cfg.mouse.buttons[i]),
         number_of_actions |-> cfg.mouse.buttons[i].number_of_actions,
         actions |-> actions_value(mem, cfg.mouse.buttons[i])]]

\* cfg holds exactly the default bindings, in declaration order, each with
\* its one action, under the main modifier MOD4, no trigger twice
holds_the_defaults(cfg, mem) ==
    /\ cfg.mouse.number_of_buttons = 3
    /\ Len(cfg.mouse.buttons) = 3
    /\ Len(default_button_bindings) = 3
    /\ cfg.keyboard.number_of_keys = 40
    /\ Len(cfg.keyboard.keys) = 40
    /\ Len(default_key_bindings) = 40
    /\ \A i \in 1..3 :
        LET d == default_button_bindings[i]
            button == cfg.mouse.buttons[i]
        IN  /\ button.index = d.button_index
            /\ button.flags = d.flags
            /\ button.modifiers = BitOr(d.modifiers, XCB_MOD_MASK_4)
            /\ BitOr(button.modifiers, XCB_MOD_MASK_4) = button.modifiers
            /\ button.number_of_actions = 1
            /\ actions_value(mem, button) = <<action_value(mem, d.action)>>
    /\ \A i \in 1..40 :
        LET d == default_key_bindings[i]
            key == cfg.keyboard.keys[i]
        IN  /\ key.key_symbol = d.key_symbol
            /\ key.flags = d.flags
            /\ key.modifiers = BitOr(d.modifiers, XCB_MOD_MASK_4)
            /\ BitOr(key.modifiers, XCB_MOD_MASK_4) = key.modifiers
            /\ key.number_of_actions = 1
            /\ actions_value(mem, key) = <<action_value(mem, d.action)>>
    /\ \A i, j \in 1..3 :
        i # j => button_trigger(cfg.mouse.buttons[i])
                    # button_trigger(cfg.mouse.buttons[j])
    /\ \A i, j \in 1..40 :
        i # j => key_trigger(cfg.keyboard.keys[i])
                    # key_trigger(cfg.keyboard.keys[j])

\* C21: Default configuration. load_default_configuration() produces a
\* configuration whose button table holds exactly the 3 default button
\* bindings and whose key table holds exactly the 40 default key bindings, in
\* declaration order, each with one action, the modifiers of every binding
\* containing the main modifier MOD4, and the triggers of each table pairwise
\* distinct; a call of the key merge leaves the button table unchanged and a
\* call of the button merge leaves the key table unchanged, whatever the
\* configuration.
C21_DefaultConfiguration ==
    [][/\ loaded' =>
            /\ configuration' = load_default_configuration.configuration
            /\ heap' = load_default_configuration.heap
            /\ holds_the_defaults(configuration', heap')
       /\ key_call' # key_call =>
            /\ configuration'.mouse = configuration.mouse
            /\ buttons_by_value(configuration', heap')
                = buttons_by_value(configuration, heap)
       /\ button_call' # button_call =>
            /\ configuration'.keyboard = configuration.keyboard
            /\ keys_by_value(configuration', heap')
                = keys_by_value(configuration, heap)]_vars

\* C21 witness: the steps of load_default_configuration() were taken, the
\* key merge last and after the button merge had filled the button table,
\* and the tables hold 3 and 40 bindings
C21_Witness ==
    /\ loaded
    /\ key_call.configuration.mouse.number_of_buttons = 3
    /\ key_call.configuration.keyboard.number_of_keys = 0
    /\ configuration.mouse.number_of_buttons = 3
    /\ configuration.keyboard.number_of_keys = 40

====
